---- MODULE Spec2Model ----
(***************************************************************************)
(* Asynchronous task lifecycle and notification layer of the Shoptimizer   *)
(* backend: the Generation Task (a Celery task), the Result Store and the  *)
(* Event Channel (both behind redis_service), the two Notification Stream  *)
(* generators (Result Store polling and pub/sub) and cancellation.         *)
(*                                                                         *)
(* Module-level names the route file uses without importing them           *)
(* (asyncio, json, StreamingResponse) are taken to resolve to the standard *)
(* objects of those names; the generator's logic is modelled as written.   *)
(***************************************************************************)
EXTENDS Naturals, Sequences, FiniteSets

\* ------------------------------------------------------------------ bounds
\* Job ids the worker pool is given a task for are 1..MaxJobs.
MaxJobs == 1
\* Notification Stream sessions opened over a behaviour.
MaxStreams == 1
\* max_wait_time of the polling stream, counted in poll intervals
\* (the source has 3600 s with a 0.5 s sleep).
max_wait_time == 2
\* Tasks scheduled under one job id over a behaviour.
MaxSchedules == 2

Ids == 1..MaxJobs
\* A job id that is never given to the worker pool and never written.
GhostId == MaxJobs + 1
AllIds == {GhostId} \cup Ids
Streams == 1..MaxStreams

None == "None"
\* The task_id of a payload that carries none: a value that is no job id.
NoId == MaxJobs + 2

VARIABLES
    pc,              \* pc[j]: position of the Generation Task of job j
    req,             \* req[j]: the arguments the task was scheduled with
    exc,             \* exc[j]: type name of the exception being handled
    ret,             \* ret[j]: the payload the task returned
    calls,           \* calls[j]: external generation calls made
    written,         \* written[j]: payloads the task stored, in order
    faults,          \* faults[j]: a store or channel call of the task failed
    response,        \* response[j]: what the external call returned
    store,           \* Result Store: key -> payload or Absent
    published,       \* published[j]: events published on topic j, in order
    skind,           \* skind[s]: "poll" | "sub" | None (not opened)
    sjob,            \* sjob[s]: job id the stream was opened for
    phase,           \* phase[s]: "idle" | "open" | "closed" | "raised"
                     \*           | "release_raised"
    previous_status, \* previous_status[s]: last status emitted (poll stream)
    elapsed,         \* elapsed[s]: loop time - start_time, in poll intervals
    emitted,         \* emitted[s]: frames yielded to the client, in order
    connected,       \* connected[s]: the client connection is still open
    inbox,           \* inbox[s]: messages delivered to the subscriber
    caught,          \* caught[s]: exceptions the generator's handler took
    scheduled,       \* scheduled[j]: tasks handed to the worker pool for j
    reply            \* the answer of the last Dispatcher or cancel call

taskVars == <<pc, req, exc, ret, calls, written, faults, response>>
streamVars == <<skind, sjob, phase, previous_status, elapsed, emitted,
                connected, inbox, caught>>
dispatchVars == <<scheduled, reply>>
vars == <<pc, req, exc, ret, calls, written, faults, response, store,
          published, skind, sjob, phase, previous_status, elapsed, emitted,
          connected, inbox, caught, scheduled, reply>>

\* What get_value returns for a key that holds nothing.
Absent ==
    [status |-> None, error |-> None, error_type |-> None, task_id |-> NoId]

\* ------------------------------------------------------------ Result Store
\* The key the stream polls and cancel deletes.
task_result_key(task_id) == <<"task_result:", task_id>>

Keys == {task_result_key(j) : j \in AllIds}

\* redis_service.store_response: the payload goes under a fixed prefix and
\* the job id, the key the Notification Stream reads.
store_response(st, task_id, payload) ==
    [st EXCEPT ![task_result_key(task_id)] = payload]

get_value(st, key) == IF key \in DOMAIN st THEN st[key] ELSE Absent

delete_value(st, key) ==
    [k \in DOMAIN st |-> IF k = key THEN Absent ELSE st[k]]

\* ----------------------------------------------------------- Event Channel
task_stream(task_id) == task_id

Subscribed(s, topic) ==
    skind[s] = "sub" /\ phase[s] = "open" /\ task_stream(sjob[s]) = topic

\* redis_service.publish_*_event: every current subscriber of the topic
\* receives the event; nothing is kept for later subscribers.
Deliver(ib, task_id, event) ==
    [s \in Streams |->
        IF Subscribed(s, task_stream(task_id))
        THEN Append(ib[s], event) ELSE ib[s]]

Log(pub, task_id, event) ==
    [pub EXCEPT ![task_id] = Append(@, event)]

\* --------------------------------------------------------------- payloads
\* The attributes of Python's None: it has none of those the task reads.
NoAttributes == <<>>

\* response.usage_metadata when the model reports usage.
UsageMetadata ==
    [prompt_token_count |-> 10, candidates_token_count |-> 5,
     total_token_count |-> 15]

\* The local `response` before the call has returned.
Unbound == [text |-> None, usage_metadata |-> NoAttributes]

\* What client.aio.models.generate_content returns: text, and usage
\* metadata or None in its place.
Responses ==
    [text : {"three_js"}, usage_metadata : {UsageMetadata, NoAttributes}]

\* getattr(obj, name, default)
getattr(obj, name, default) ==
    IF name \in DOMAIN obj THEN obj[name] ELSE default

final_response(task_id, resp) ==
    [status |-> "success", error |-> None, error_type |-> None,
     metadata |-> resp.text,
     usage |->
        [input_tokens |->
            getattr(resp.usage_metadata, "prompt_token_count", 0),
         output_tokens |->
            getattr(resp.usage_metadata, "candidates_token_count", 0),
         total_tokens |->
            getattr(resp.usage_metadata, "total_token_count", 0)],
     task_id |-> task_id]

error_response(e, task_id) ==
    [status |-> "error", error |-> e, error_type |-> e, task_id |-> task_id]

no_image_response ==
    [status |-> "error", error |-> "No image URL provided",
     error_type |-> None, task_id |-> NoId]

Payloads ==
    {final_response(j, r) : j \in Ids, r \in Responses}
    \cup {error_response(e, j) :
            e \in {"ConnectionError", "UnboundLocalError", "GenerationError",
                   "AttributeError"},
            j \in Ids}
    \cup {no_image_response}

\* ----------------------------------------------------------- task requests
NoReq == [kind |-> None, featured_image |-> FALSE, image_url |-> FALSE,
          shop_theme |-> FALSE, own_id |-> FALSE]

\* kind "product3d": ShopifyProductTo3DTask, scheduled with the handle the
\* worker pool picks; kind "prompt": PromptTask, scheduled by queue_task
\* with task_id=<job id> as its handle (own_id); kind "scene":
\* ShopifySceneGenerationTask. featured_image and image_url: product_data
\* has a non-empty value under that key. The product_data with the image
\* under "image_url" is the one the scheduling script passes, with no theme.
Requests ==
    [kind : {"product3d"}, featured_image : BOOLEAN, image_url : {FALSE},
     shop_theme : BOOLEAN, own_id : {FALSE}]
    \cup [kind : {"product3d"}, featured_image : {FALSE}, image_url : {TRUE},
          shop_theme : {FALSE}, own_id : {FALSE}]
    \cup [kind : {"prompt"}, featured_image : {TRUE}, image_url : {FALSE},
          shop_theme : {TRUE}, own_id : {TRUE}]
    \cup [kind : {"scene"}, featured_image : {TRUE}, image_url : {FALSE},
          shop_theme : {TRUE}, own_id : {FALSE}]

\* ------------------------------------------------------- Dispatcher answer
\* handler: the route function that answered; code: the HTTP status;
\* status and task_id: the fields of TaskResponse; tasks: apply_async calls
\* the handler made; lacking: the submission had no value for a field the
\* generation needs.
NoResponse ==
    [handler |-> None, code |-> 0, status |-> None, task_id |-> NoId,
     tasks |-> 0, lacking |-> FALSE]

Answer(handler, code, status, task_id, tasks, lacking) ==
    [handler |-> handler, code |-> code, status |-> status,
     task_id |-> task_id, tasks |-> tasks, lacking |-> lacking]

\* ------------------------------------------------------------------- Init
Init ==
    /\ pc = [j \in Ids |-> "none"]
    /\ req = [j \in Ids |-> NoReq]
    /\ exc = [j \in Ids |-> None]
    /\ ret = [j \in Ids |-> Absent]
    /\ calls = [j \in Ids |-> 0]
    /\ written = [j \in Ids |-> <<>>]
    /\ faults = [j \in Ids |-> FALSE]
    /\ response = [j \in Ids |-> Unbound]
    /\ store = [k \in Keys |-> Absent]
    /\ published = [j \in AllIds |-> <<>>]
    /\ skind = [s \in Streams |-> None]
    /\ sjob = [s \in Streams |-> GhostId]
    /\ phase = [s \in Streams |-> "idle"]
    /\ previous_status = [s \in Streams |-> None]
    /\ elapsed = [s \in Streams |-> 0]
    /\ emitted = [s \in Streams |-> <<>>]
    /\ connected = [s \in Streams |-> TRUE]
    /\ inbox = [s \in Streams |-> <<>>]
    /\ caught = [s \in Streams |-> 0]
    /\ scheduled = [j \in Ids |-> 0]
    /\ reply = NoResponse

\* -------------------------------------------------------- Generation Task
\* Task.apply_async(args=(task_id, ...)): the worker pool is handed a task.
\* Job ids are handed out in order.
apply_async(j, r) ==
    /\ UNCHANGED response
    /\ pc[j] = "none"
    /\ \A i \in Ids : i < j => pc[i] # "none"
    /\ pc' = [pc EXCEPT ![j] = "queued"]
    /\ req' = [req EXCEPT ![j] = r]
    /\ scheduled' = [scheduled EXCEPT ![j] = @ + 1]
    /\ UNCHANGED <<exc, ret, calls, written, faults, store, published,
                   streamVars, reply>>

\* run() calls self._run_async(...) with keyword arguments. The scene task's
\* run passes product_count, which its _run_async does not take: the call
\* raises TypeError in run, outside every try block.
run_binds(r) == r.kind # "scene"

\* The validation is skipped.
image_missing_unchecked(r) == FALSE
\* product_image_url = product_data.get("featured_image", ""), then
\* "if not product_image_url".
image_missing(r) == r.kind = "product3d" /\ ~r.featured_image

\* run, then _run_async from its entry to the await of the external call:
\* the start event, the image validation, the prompt, then the call is
\* issued.
TaskBegin(j, start_ok) ==
    /\ UNCHANGED response
    /\ UNCHANGED dispatchVars
    /\ pc[j] = "queued"
    /\ IF ~run_binds(req[j])
       THEN /\ pc' = [pc EXCEPT ![j] = "raised"]
            /\ exc' = [exc EXCEPT ![j] = "TypeError"]
            /\ UNCHANGED <<ret, calls, published, inbox, faults>>
       ELSE IF ~start_ok
       THEN /\ pc' = [pc EXCEPT ![j] = "except"]
            /\ exc' = [exc EXCEPT ![j] = "ConnectionError"]
            /\ faults' = [faults EXCEPT ![j] = TRUE]
            /\ UNCHANGED <<ret, calls, published, inbox>>
       ELSE /\ published' = Log(published, j, "start")
            /\ inbox' = Deliver(inbox, j, "start")
            /\ UNCHANGED faults
            /\ IF image_missing(req[j])
               THEN /\ pc' = [pc EXCEPT ![j] = "done"]
                    /\ ret' = [ret EXCEPT ![j] = no_image_response]
                    /\ UNCHANGED <<exc, calls>>
               ELSE IF req[j].kind = "product3d" /\ ~req[j].shop_theme
               THEN /\ pc' = [pc EXCEPT ![j] = "except"]
                    /\ exc' = [exc EXCEPT ![j] = "UnboundLocalError"]
                    /\ UNCHANGED <<ret, calls>>
               ELSE /\ pc' = [pc EXCEPT ![j] = "call"]
                    /\ calls' = [calls EXCEPT ![j] = @ + 1]
                    /\ UNCHANGED <<exc, ret>>
    /\ UNCHANGED <<req, written, store, skind, sjob, phase, previous_status,
                   elapsed, emitted, connected, caught>>

\* The counts are read as attributes of usage_metadata, without defaults.
usage_readable_strict(resp) == DOMAIN resp.usage_metadata # {}

\* response.usage_metadata is read as an attribute of the response; the
\* counts are read from it with getattr and a default.
usage_readable(resp) == "usage_metadata" \in DOMAIN resp

\* The external generation call returns or throws; building final_response
\* from what it returned is part of the step.
TaskCallReturn(j, call_ok) ==
    /\ UNCHANGED dispatchVars
    /\ pc[j] = "call"
    /\ IF call_ok
       THEN \E r \in Responses :
            /\ response' = [response EXCEPT ![j] = r]
            /\ IF usage_readable(r)
               THEN /\ pc' = [pc EXCEPT ![j] = "publish"]
                    /\ UNCHANGED exc
               ELSE /\ pc' = [pc EXCEPT ![j] = "except"]
                    /\ exc' = [exc EXCEPT ![j] = "AttributeError"]
       ELSE /\ pc' = [pc EXCEPT ![j] = "except"]
            /\ exc' = [exc EXCEPT ![j] = "GenerationError"]
            /\ UNCHANGED response
    /\ UNCHANGED <<req, ret, calls, written, faults, store, published,
                   streamVars>>

\* redis_service.publish_complete_event(task_id, final_response)
TaskPublishComplete(j, publish_ok) ==
    /\ UNCHANGED response
    /\ UNCHANGED dispatchVars
    /\ pc[j] = "publish"
    /\ faults' = [faults EXCEPT ![j] = @ \/ ~publish_ok]
    /\ IF publish_ok
       THEN /\ published' = Log(published, j, "complete")
            /\ inbox' = Deliver(inbox, j, "complete")
            /\ pc' = [pc EXCEPT ![j] = "store"]
            /\ UNCHANGED exc
       ELSE /\ pc' = [pc EXCEPT ![j] = "except"]
            /\ exc' = [exc EXCEPT ![j] = "ConnectionError"]
            /\ UNCHANGED <<published, inbox>>
    /\ UNCHANGED <<req, ret, calls, written, store, skind, sjob, phase,
                   previous_status, elapsed, emitted, connected, caught>>

\* redis_service.store_response(task_id, final_response); return
TaskStore(j, store_ok) ==
    /\ UNCHANGED response
    /\ UNCHANGED dispatchVars
    /\ pc[j] = "store"
    /\ faults' = [faults EXCEPT ![j] = @ \/ ~store_ok]
    /\ IF store_ok
       THEN /\ store' = store_response(store, j,
                                       final_response(j, response[j]))
            /\ written' = [written EXCEPT
                              ![j] = Append(@, final_response(j, response[j]))]
            /\ pc' = [pc EXCEPT ![j] = "done"]
            /\ ret' = [ret EXCEPT ![j] = final_response(j, response[j])]
            /\ UNCHANGED exc
       ELSE /\ pc' = [pc EXCEPT ![j] = "except"]
            /\ exc' = [exc EXCEPT ![j] = "ConnectionError"]
            /\ UNCHANGED <<store, ret, written>>
    /\ UNCHANGED <<req, calls, published, streamVars>>

\* The store call moved out of the inner try: it runs whatever the publish
\* did.
after_publish_error_event_store(publish_ok) == "estore"

\* try: publish_error_event(...); store_response(...) / except: pass.
\* The store call runs only when the publish returned.
after_publish_error_event(publish_ok) ==
    IF publish_ok THEN "estore" ELSE "done"

\* except Exception as e: redis_service.publish_error_event(task_id, e);
\* a failure of it is swallowed and the error payload returned unstored.
TaskPublishError(j, publish_ok) ==
    /\ UNCHANGED response
    /\ UNCHANGED dispatchVars
    /\ pc[j] = "except"
    /\ faults' = [faults EXCEPT ![j] = @ \/ ~publish_ok]
    /\ IF publish_ok
       THEN /\ published' = Log(published, j, "error")
            /\ inbox' = Deliver(inbox, j, "error")
            /\ pc' = [pc EXCEPT ![j] = after_publish_error_event(publish_ok)]
            /\ UNCHANGED ret
       ELSE /\ pc' = [pc EXCEPT ![j] = after_publish_error_event(publish_ok)]
            /\ ret' = [ret EXCEPT ![j] = error_response(exc[j], j)]
            /\ UNCHANGED <<published, inbox>>
    /\ UNCHANGED <<req, exc, calls, written, store, skind, sjob, phase,
                   previous_status, elapsed, emitted, connected, caught>>

\* redis_service.store_response(task_id, error_response); return
TaskStoreError(j, store_ok) ==
    /\ UNCHANGED response
    /\ UNCHANGED dispatchVars
    /\ pc[j] = "estore"
    /\ faults' = [faults EXCEPT ![j] = @ \/ ~store_ok]
    /\ store' = IF store_ok
                THEN store_response(store, j, error_response(exc[j], j))
                ELSE store
    /\ written' = IF store_ok
                  THEN [written EXCEPT
                            ![j] = Append(@, error_response(exc[j], j))]
                  ELSE written
    /\ pc' = [pc EXCEPT ![j] = "done"]
    /\ ret' = [ret EXCEPT ![j] = error_response(exc[j], j)]
    /\ UNCHANGED <<req, exc, calls, published, streamVars>>

\* task_time_limit=600: the worker pool kills a task that has run for the
\* hard time limit; nothing of the task runs afterwards.
TimeLimitExceeded(j) ==
    /\ UNCHANGED response
    /\ pc[j] \in {"call", "publish", "store", "except", "estore"}
    /\ pc' = [pc EXCEPT ![j] = "killed"]
    /\ UNCHANGED <<req, exc, ret, calls, written, faults, store, published,
                   streamVars, dispatchVars>>

\* ------------------------------------------------------------ cancellation
\* The signal reaches the task of the job id whatever its handle is.
revoke_by_job_id(p, task_id) ==
    [j \in Ids |->
        IF j = task_id
           /\ p[j] \notin {"none", "done", "raised", "killed", "revoked"}
        THEN "revoked" ELSE p[j]]

\* celery_app.control.revoke(task_id, terminate=True): addressed to the task
\* whose handle is task_id.
revoke(p, task_id) ==
    [j \in Ids |->
        IF j = task_id /\ req[j].own_id
           /\ p[j] \notin {"none", "done", "raised", "killed", "revoked"}
        THEN "revoked" ELSE p[j]]

\* status_code=HTTP_204_NO_CONTENT when both calls return, else the
\* HTTPException of the except block.
cancel_code(revoke_ok, delete_ok) ==
    IF revoke_ok /\ delete_ok THEN 204 ELSE 500

\* DELETE /task/{task_id}: revoke, then delete the stored entry; a failure
\* of either call ends the handler with a 500 at that point.
cancel_task(task_id, revoke_ok, delete_ok) ==
    /\ UNCHANGED response
    /\ UNCHANGED scheduled
    /\ reply' = Answer("cancel_task", cancel_code(revoke_ok, delete_ok), None,
                       task_id, 0, FALSE)
    /\ IF ~revoke_ok
       THEN UNCHANGED <<pc, store>>
       ELSE /\ pc' = revoke(pc, task_id)
            /\ store' = IF delete_ok
                        THEN delete_value(store, task_result_key(task_id))
                        ELSE store
    /\ UNCHANGED <<req, exc, ret, calls, written, faults, published,
                   streamVars>>

\* ---------------------------------------------- Notification Stream frames
Frame(status, origin) == [status |-> status, origin |-> origin]

Emit(em, s, frame) == [em EXCEPT ![s] = Append(@, frame)]

\* Statuses on which the polling loop closes the connection.
done_statuses == {"completed", "failed"}

\* ------------------------------------- Notification Stream (store polling)
\* GET /task-stream/{task_id}: the generator starts with previous_status
\* None and start_time now. Sessions are opened in order.
stream_task_result(s, task_id) ==
    /\ UNCHANGED dispatchVars
    /\ phase[s] = "idle"
    /\ \A i \in Streams : i < s => phase[i] # "idle"
    /\ skind' = [skind EXCEPT ![s] = "poll"]
    /\ sjob' = [sjob EXCEPT ![s] = task_id]
    /\ phase' = [phase EXCEPT ![s] = "open"]
    /\ UNCHANGED <<taskVars, store, published, previous_status, elapsed,
                   emitted, connected, inbox, caught>>

\* The comparison with >= for >: the budget counts as spent one interval early.
timed_out_early(el) == el >= max_wait_time

\* The timeout check at the top of the polling loop.
timed_out(el) == el > max_wait_time

\* break: the generator ends and the response closes.
close(ph, s) == [ph EXCEPT ![s] = "closed"]

\* The handler without its break: the loop goes on after the error frame.
handle_exception_no_break(ph, s) == ph

\* except Exception as e: after the error frame is yielded the loop is left.
handle_exception(ph, s) == close(ph, s)

\* asyncio.sleep(0.5): the loop time moves on by one poll interval.
sleep(el, s) ==
    [el EXCEPT ![s] = IF timed_out(@) THEN @ ELSE @ + 1]

\* The guard dropped: every read of an absent entry counts as the first.
nothing_emitted_always(prev) == TRUE

\* "if previous_status is None" in the branch of an absent entry.
nothing_emitted(prev) == prev = None

\* The generator clears what the store holds.
StreamFrame_clearing ==
    /\ store' = [k \in DOMAIN store |-> Absent]
    /\ UNCHANGED <<taskVars, published>>

\* Neither generator calls a write of redis_service, publishes, or touches
\* a task.
StreamFrame == UNCHANGED <<taskVars, store, published>>

\* One iteration of the while True loop. read_ok = FALSE: get_value,
\* json.loads or json.dumps raises inside the try block.
PollIteration(s, read_ok) ==
    /\ UNCHANGED dispatchVars
    /\ skind[s] = "poll" /\ phase[s] = "open"
    /\ LET result == get_value(store, task_result_key(sjob[s])) IN
       IF timed_out(elapsed[s])
       THEN /\ emitted' = Emit(emitted, s, Frame("timeout", "timeout"))
            /\ phase' = close(phase, s)
            /\ UNCHANGED <<previous_status, elapsed, caught>>
       ELSE IF ~read_ok
       THEN /\ emitted' = Emit(emitted, s, Frame("error", "exception"))
            /\ caught' = [caught EXCEPT ![s] = @ + 1]
            /\ phase' = handle_exception(phase, s)
            /\ UNCHANGED <<previous_status, elapsed>>
       ELSE IF result # Absent
       THEN IF result.status # previous_status[s]
            THEN /\ emitted' = Emit(emitted, s, Frame(result.status, "stored"))
                 /\ previous_status' =
                        [previous_status EXCEPT ![s] = result.status]
                 /\ IF result.status \in done_statuses
                    THEN /\ phase' = close(phase, s)
                         /\ UNCHANGED elapsed
                    ELSE /\ elapsed' = sleep(elapsed, s)
                         /\ UNCHANGED phase
                 /\ UNCHANGED caught
            ELSE /\ elapsed' = sleep(elapsed, s)
                 /\ UNCHANGED <<emitted, previous_status, phase, caught>>
       ELSE IF nothing_emitted(previous_status[s])
       THEN /\ emitted' = Emit(emitted, s, Frame("queued", "synthetic"))
            /\ previous_status' = [previous_status EXCEPT ![s] = "queued"]
            /\ elapsed' = sleep(elapsed, s)
            /\ UNCHANGED <<phase, caught>>
       ELSE /\ elapsed' = sleep(elapsed, s)
            /\ UNCHANGED <<emitted, previous_status, phase, caught>>
    /\ StreamFrame
    /\ UNCHANGED <<skind, sjob, connected, inbox>>

\* ------------------------------------------ Notification Stream (pub/sub)
\* GET /subscribe/{task_id}: redis_service.subscribe runs before the try
\* block, so its failure leaves the generator as an exception.
subscribe_claude_events(s, task_id, subscribe_ok) ==
    /\ UNCHANGED dispatchVars
    /\ phase[s] = "idle"
    /\ \A i \in Streams : i < s => phase[i] # "idle"
    /\ skind' = [skind EXCEPT ![s] = "sub"]
    /\ sjob' = [sjob EXCEPT ![s] = task_id]
    /\ phase' = [phase EXCEPT ![s] = IF subscribe_ok THEN "open" ELSE "raised"]
    /\ UNCHANGED <<taskVars, store, published, previous_status, elapsed,
                   emitted, connected, inbox, caught>>

\* The events after which the pub/sub loop breaks.
final_events == {"complete", "error"}

\* finally: pubsub.unsubscribe(...); pubsub.close(). When either raises,
\* the exception leaves the generator.
release(ph, s, release_ok) ==
    [ph EXCEPT ![s] = IF release_ok THEN "closed" ELSE "release_raised"]

\* One iteration of the while not is_disconnected() loop; leaving the loop
\* runs the finally block. message_ok = FALSE: is_disconnected,
\* get_message, json.loads or json.dumps raises inside the try block.
SubIteration(s, message_ok, release_ok) ==
    /\ UNCHANGED dispatchVars
    /\ skind[s] = "sub" /\ phase[s] = "open"
    /\ IF ~connected[s]
       THEN /\ phase' = release(phase, s, release_ok)
            /\ inbox' = [inbox EXCEPT ![s] = <<>>]
            /\ UNCHANGED <<emitted, caught>>
       ELSE IF ~message_ok
       THEN /\ emitted' = Emit(emitted, s, Frame("error", "exception"))
            /\ caught' = [caught EXCEPT ![s] = @ + 1]
            /\ phase' = release(phase, s, release_ok)
            /\ inbox' = [inbox EXCEPT ![s] = <<>>]
       ELSE IF inbox[s] # <<>>
       THEN /\ emitted' = Emit(emitted, s, Frame(Head(inbox[s]), "channel"))
            /\ IF Head(inbox[s]) \in final_events
               THEN /\ phase' = release(phase, s, release_ok)
                    /\ inbox' = [inbox EXCEPT ![s] = <<>>]
               ELSE /\ inbox' = [inbox EXCEPT ![s] = Tail(@)]
                    /\ UNCHANGED phase
            /\ UNCHANGED caught
       ELSE UNCHANGED <<phase, inbox, emitted, caught>>
    /\ StreamFrame
    /\ UNCHANGED <<skind, sjob, previous_status, elapsed, connected>>

\* The client closes its side of the connection.
ClientDisconnect(s) ==
    /\ UNCHANGED dispatchVars
    /\ phase[s] = "open" /\ connected[s]
    /\ connected' = [connected EXCEPT ![s] = FALSE]
    /\ UNCHANGED <<taskVars, store, published, skind, sjob, phase,
                   previous_status, elapsed, emitted, inbox, caught>>

\* ------------------------------------------------------------- Dispatcher
\* Job ids no task was scheduled under.
Unused == {j \in Ids : scheduled[j] = 0}

\* str(uuid.uuid4()): an id no earlier task was scheduled under; ids are
\* taken in order.
uuid4 == CHOOSE j \in Unused : \A i \in Unused : j <= i

\* The body of POST /api/generate-product-3d: which of the fields of
\* ProductData and GenerateProduct3DRequest it carries.
ProductRequests ==
    [title : BOOLEAN, featured_image : BOOLEAN, shop_theme : BOOLEAN]

\* FastAPI validates the body against GenerateProduct3DRequest before the
\* handler is entered: title and featured_image are required.
valid(request) == request.title /\ request.featured_image

\* ProductData.featured_image is declared str.
featured_image_type == "str"

\* request.product_data.featured_image.url: a str has no attribute url.
has_url(type) == type # "str"

\* The dict generate_product_3d hands to the task: the image goes under
\* "image_url", the dict has no "featured_image" key.
product_dict(request) ==
    [kind |-> "product3d", featured_image |-> FALSE,
     image_url |-> request.featured_image,
     shop_theme |-> request.shop_theme, own_id |-> FALSE]

\* POST /api/generate-product-3d
generate_product_3d(request) ==
    /\ UNCHANGED response
    /\ IF ~valid(request)
       THEN /\ reply' = Answer("generate_product_3d", 422, None, NoId, 0, TRUE)
            /\ UNCHANGED <<pc, req, scheduled>>
       ELSE IF ~has_url(featured_image_type)
       THEN \* AttributeError, caught by "except Exception": HTTP 500
            /\ reply' = Answer("generate_product_3d", 500, None, NoId, 0, FALSE)
            /\ UNCHANGED <<pc, req, scheduled>>
       ELSE /\ Unused # {}
            /\ pc' = [pc EXCEPT ![uuid4] = "queued"]
            /\ req' = [req EXCEPT ![uuid4] = product_dict(request)]
            /\ scheduled' = [scheduled EXCEPT ![uuid4] = @ + 1]
            /\ reply' = Answer("generate_product_3d", 202, "queued",
                               uuid4, 1, FALSE)
    /\ UNCHANGED <<exc, ret, calls, written, faults, store, published,
                   streamVars>>

\* The path parameter of POST /queue/{type}.
QueueTypes == {"3d", "edit", "3d_magic", "image", "llama"}

\* The body of POST /queue/{type}: the task_id the client chose (NoId for
\* none) and which of the optional fields have a value.
StreamRequests ==
    [task_id : Ids \cup {NoId}, threejs_code : BOOLEAN,
     image_base64 : BOOLEAN, prompt : BOOLEAN]

\* The HTTPException(status_code=400) branches of queue_task.
rejected(type, request) ==
    \/ type = "edit" /\ ~request.threejs_code
    \/ type = "edit" /\ ~request.image_base64 /\ ~request.prompt
    \/ type = "image" /\ ~request.image_base64
    \/ type \notin {"3d", "edit", "3d_magic", "image"}

\* The branches of queue_task that reach an apply_async call.
schedules(type, request) ==
    \/ type = "3d"
    \/ type = "edit" /\ ~rejected(type, request)
    \/ type = "image" /\ request.image_base64

prompt_args ==
    [kind |-> "prompt", featured_image |-> TRUE, image_url |-> FALSE,
     shop_theme |-> TRUE, own_id |-> TRUE]

\* POST /queue/{type}. A task scheduled under an id the worker pool was
\* already given a task for is counted in scheduled; pc, req and the
\* histories follow the first task of each id only.
queue_task(type, request) ==
    /\ UNCHANGED response
    /\ request.task_id = NoId => Unused # {}
    /\ LET task_id == IF request.task_id # NoId
                      THEN request.task_id ELSE uuid4
           lacking == ~request.image_base64 /\ ~request.prompt
       IN  IF rejected(type, request)
           THEN /\ reply' = Answer("queue_task", 400, None, NoId, 0, lacking)
                /\ UNCHANGED <<pc, req, scheduled>>
           ELSE IF schedules(type, request)
           THEN /\ scheduled[task_id] < MaxSchedules
                /\ scheduled' = [scheduled EXCEPT ![task_id] = @ + 1]
                /\ IF pc[task_id] = "none"
                   THEN /\ pc' = [pc EXCEPT ![task_id] = "queued"]
                        /\ req' = [req EXCEPT ![task_id] = prompt_args]
                   ELSE UNCHANGED <<pc, req>>
                /\ reply' = Answer("queue_task", 200, None, task_id, 1, lacking)
           ELSE /\ reply' = Answer("queue_task", 200, None, task_id, 0, lacking)
                /\ UNCHANGED <<pc, req, scheduled>>
    /\ UNCHANGED <<exc, ret, calls, written, faults, store, published,
                   streamVars>>

\* ---------------------------------------------------- Result Access Layer
\* app/api/routes.py reads redis_service.get_value(task_id): the job id
\* with no prefix.
api_result_key(task_id) == <<"", task_id>>

\* Without the not-found branch: the status of what get_value gave.
get_task_result_unknown(st, task_id, read_ok) ==
    IF ~read_ok
    THEN [code |-> 500, status |-> None, result |-> Absent]
    ELSE LET result == get_value(st, api_result_key(task_id)) IN
         [code |-> 200,
          status |-> IF result # Absent THEN result.status ELSE "unknown",
          result |-> result]

\* GET /api/task-result/{task_id}
get_task_result(st, task_id, read_ok) ==
    IF ~read_ok
    THEN [code |-> 500, status |-> None, result |-> Absent]
    ELSE LET result == get_value(st, api_result_key(task_id)) IN
         IF result # Absent
         THEN [code |-> 200, status |-> result.status, result |-> result]
         ELSE [code |-> 200, status |-> "pending", result |-> Absent]

\* The read removes the entry of the job.
get_task_result_getdel(task_id, read_ok) ==
    /\ store' = delete_value(store, task_result_key(task_id))
    /\ UNCHANGED <<taskVars, published, streamVars, dispatchVars>>

\* A call of GET /api/task-result/{task_id}: the handler assigns nothing
\* but its locals.
get_task_result_call(task_id, read_ok) == UNCHANGED vars

\* backend/routes.py reads f"task_response:{task_id}".
task_response_key(task_id) == <<"task_response:", task_id>>

\* What the worker pool holds: the state the handle-based calls see.
Pool == [pc |-> pc, req |-> req, exc |-> exc, ret |-> ret]

\* A worker pool that was never given a task.
IdlePool ==
    [pc |-> [j \in Ids |-> "none"], req |-> [j \in Ids |-> NoReq],
     exc |-> [j \in Ids |-> None], ret |-> [j \in Ids |-> Absent]]

\* AsyncResult(task_id).state, with task_track_started: the state of the
\* task whose handle is task_id; PENDING for a handle the pool does not
\* know.
AsyncResult(pool, task_id) ==
    IF task_id \notin Ids \/ ~pool.req[task_id].own_id THEN "PENDING"
    ELSE IF pool.pc[task_id] \in {"none", "queued"} THEN "PENDING"
    ELSE IF pool.pc[task_id] = "done" THEN "SUCCESS"
    ELSE IF pool.pc[task_id] \in {"raised", "killed"} THEN "FAILURE"
    ELSE IF pool.pc[task_id] = "revoked" THEN "REVOKED"
    ELSE "STARTED"

lower(state) ==
    IF state = "STARTED" THEN "started"
    ELSE IF state = "REVOKED" THEN "revoked"
    ELSE state

status_only(status) ==
    [status |-> status, error |-> None, error_type |-> None,
     task_id |-> NoId]

\* get_task_result of backend/routes.py: the stored entry, else the state
\* of the Celery handle.
routes_get_task_result(st, pool, task_id) ==
    LET result == get_value(st, task_response_key(task_id))
        state == AsyncResult(pool, task_id)
    IN  IF result # Absent THEN result
        ELSE IF state = "PENDING" THEN status_only("pending")
        ELSE IF state = "FAILURE"
        THEN [status |-> "error", error |-> pool.exc[task_id],
              error_type |-> pool.exc[task_id], task_id |-> NoId]
        ELSE IF state = "SUCCESS" THEN pool.ret[task_id]
        ELSE status_only(lower(state))

\* GET /task/{task_id} of backend/routes.py
get_task_status(st, pool, task_id) ==
    LET result == routes_get_task_result(st, pool, task_id)
        status == IF result.status \notin {"pending", "failed"}
                  THEN "completed" ELSE result.status
    IN  [code |-> 200, status |-> status,
         result |-> IF status = "completed" THEN result ELSE Absent]

Next ==
    \/ \E j \in Ids, r \in Requests : apply_async(j, r)
    \/ \E request \in ProductRequests : generate_product_3d(request)
    \/ \E type \in QueueTypes, request \in StreamRequests :
            queue_task(type, request)
    \/ \E j \in Ids, ok \in BOOLEAN : TaskBegin(j, ok)
    \/ \E j \in Ids, ok \in BOOLEAN : TaskCallReturn(j, ok)
    \/ \E j \in Ids, ok \in BOOLEAN : TaskPublishComplete(j, ok)
    \/ \E j \in Ids, ok \in BOOLEAN : TaskStore(j, ok)
    \/ \E j \in Ids, ok \in BOOLEAN : TaskPublishError(j, ok)
    \/ \E j \in Ids, ok \in BOOLEAN : TaskStoreError(j, ok)
    \/ \E j \in AllIds, rok \in BOOLEAN, dok \in BOOLEAN : cancel_task(j, rok, dok)
    \/ \E j \in Ids : TimeLimitExceeded(j)
    \/ \E j \in AllIds, ok \in BOOLEAN : get_task_result_call(j, ok)
    \/ \E s \in Streams, j \in AllIds : stream_task_result(s, j)
    \/ \E s \in Streams, ok \in BOOLEAN : PollIteration(s, ok)
    \/ \E s \in Streams, j \in AllIds, ok \in BOOLEAN :
            subscribe_claude_events(s, j, ok)
    \/ \E s \in Streams, ok \in BOOLEAN, rok \in BOOLEAN :
            SubIteration(s, ok, rok)
    \/ \E s \in Streams : ClientDisconnect(s)

Spec == Init /\ [][Next]_vars

\* The worker pool runs the tasks it holds and the event loop runs every
\* open generator; the external generation call may take arbitrarily long,
\* and nothing makes a read of the store or of the channel fail.
FairSpec ==
    /\ Spec
    /\ \A j \in Ids :
        /\ WF_vars(\E ok \in BOOLEAN : TaskBegin(j, ok))
        /\ WF_vars(\E ok \in BOOLEAN : TaskPublishComplete(j, ok))
        /\ WF_vars(\E ok \in BOOLEAN : TaskStore(j, ok))
        /\ WF_vars(\E ok \in BOOLEAN : TaskPublishError(j, ok))
        /\ WF_vars(\E ok \in BOOLEAN : TaskStoreError(j, ok))
    /\ \A s \in Streams :
        /\ WF_vars(PollIteration(s, TRUE))
        /\ WF_vars(SubIteration(s, TRUE, TRUE))

\* ============================================================= properties
Last(seq) == seq[Len(seq)]

\* The status a frame shows the client: the pub/sub stream names its frames
\* by event type.
StatusOf(f) ==
    IF f.origin # "channel" THEN f.status
    ELSE IF f.status = "start" THEN "started"
    ELSE IF f.status = "complete" THEN "completed"
    ELSE f.status

TerminalStatuses == {"completed", "failed", "timeout", "error"}

\* C1: once the task's terminal payload has been emitted on a polling
\* stream, the stream is closed: a stream whose last frame is a stored
\* payload (the task stores nothing but its terminal payload) is not open.
C1_TerminalPayloadClosesStream ==
    \A s \in Streams :
        (skind[s] = "poll" /\ emitted[s] # <<>>
            /\ Last(emitted[s]).origin = "stored")
        => phase[s] = "closed"

\* The generator has run to its end.
Ended(s) == phase[s] \in {"closed", "release_raised"}

EndedWithTerminal(s) ==
    /\ Ended(s)
    /\ emitted[s] # <<>>
    /\ StatusOf(Last(emitted[s])) \in TerminalStatuses

\* C2: every open stream whose client stays connected eventually closes
\* with a last frame whose status is completed, failed, timeout or error.
C2_StreamEventuallyTerminal ==
    \A s \in Streams :
        (phase[s] = "open") ~> (EndedWithTerminal(s) \/ ~connected[s])

Rank(status) ==
    IF status = "queued" THEN 0 ELSE IF status = "started" THEN 1 ELSE 2

\* C3: on every stream the emitted statuses never step back in the order
\* queued, started, completed/failed, and no frame follows a frame whose
\* status is completed, failed, timeout or error.
C3_LifecycleOrder ==
    \A s \in Streams :
        \A i \in 1..(Len(emitted[s]) - 1) :
            /\ StatusOf(emitted[s][i]) \notin TerminalStatuses
            /\ Rank(StatusOf(emitted[s][i]))
                   <= Rank(StatusOf(emitted[s][i + 1]))

\* C4: no two consecutive frames of one stream carry the same status.
C4_NoRepeatedStatus ==
    \A s \in Streams :
        \A i \in 1..(Len(emitted[s]) - 1) :
            emitted[s][i].status # emitted[s][i + 1].status

\* C4, the part about stored payloads: a stored payload is emitted only
\* with a status other than the one last recorded on the stream.
C4_StoredPayloadDeduplicated ==
    [][\A s \in Streams :
          (emitted'[s] # emitted[s] /\ Last(emitted'[s]).origin = "stored")
          => Last(emitted'[s]).status # previous_status[s]]_vars

QueuedFrame == Frame("queued", "synthetic")
TimeoutFrame == Frame("timeout", "timeout")

\* A polling stream for the job id that is never written, on which no read
\* has raised.
GhostPoll(s) == skind[s] = "poll" /\ sjob[s] = GhostId /\ caught[s] = 0

\* C5: a polling stream for a job id that is never written emits one
\* queued frame, then, only once the elapsed time exceeds max_wait_time,
\* one timeout frame, and it is closed exactly then; and while it is open
\* it does come to that end (unless a read raises).
C5_NeverWrittenQueuedThenTimeout ==
    /\ [](\A s \in Streams :
            GhostPoll(s) =>
                /\ emitted[s] \in {<<>>, <<QueuedFrame>>,
                                   <<QueuedFrame, TimeoutFrame>>}
                /\ phase[s] = "closed"
                       <=> emitted[s] = <<QueuedFrame, TimeoutFrame>>
                /\ emitted[s] = <<QueuedFrame, TimeoutFrame>>
                       => elapsed[s] > max_wait_time)
    /\ \A s \in Streams :
            (GhostPoll(s) /\ phase[s] = "open")
            ~> (caught[s] > 0 \/ emitted[s] = <<QueuedFrame, TimeoutFrame>>)

C5_Witness ==
    \E s \in Streams :
        /\ GhostPoll(s)
        /\ phase[s] = "closed"
        /\ emitted[s] = <<QueuedFrame, TimeoutFrame>>

\* A pub/sub stream that subscribed after the terminal event of its job
\* was published: the event is neither in its inbox nor ahead of it.
Missed(s) ==
    /\ skind[s] = "sub" /\ phase[s] = "open"
    /\ \E i \in DOMAIN published[sjob[s]] :
            published[sjob[s]][i] \in final_events
    /\ \A i \in DOMAIN inbox[s] : inbox[s][i] \notin final_events

\* C6: a stream that missed the terminal event still gets a terminal
\* status to its client (or the client leaves first).
C6_LateSubscriberGetsTerminal ==
    \A s \in Streams :
        Missed(s) ~> (EndedWithTerminal(s) \/ ~connected[s])

ExceptionFrames(s) ==
    {i \in DOMAIN emitted[s] : emitted[s][i].origin = "exception"}

\* C7: an exception raised while a stream reads or serializes job state
\* gives exactly one error frame, the last frame of the stream, and the
\* loop is left. An exception leaves a generator only from subscribing,
\* before anything was read or emitted, or from releasing the subscription
\* in the finally block, after the loop; the polling generator raises never.
C7_ExceptionBecomesOneErrorEvent ==
    \A s \in Streams :
        /\ Cardinality(ExceptionFrames(s)) = caught[s]
        /\ caught[s] <= 1
        /\ caught[s] = 1 =>
                /\ Ended(s)
                /\ Last(emitted[s]) = Frame("error", "exception")
        /\ phase[s] = "raised" => (caught[s] = 0 /\ emitted[s] = <<>>)
        /\ skind[s] = "poll" => phase[s] \in {"open", "closed"}

C7_Witness ==
    \E s \in Streams :
        /\ caught[s] = 1
        /\ phase[s] = "closed"
        /\ Len(emitted[s]) > 1
        /\ Last(emitted[s]) = Frame("error", "exception")

\* C8: once the client connection is closed a stream emits nothing more.
C8_NoEventAfterDisconnect ==
    [][\A s \in Streams : ~connected[s] => emitted'[s] = emitted[s]]_vars

HasFinalEvent(j) ==
    \E i \in DOMAIN published[j] : published[j][i] \in final_events

\* C9: a task that has returned, none of whose store and channel calls
\* failed, has published a terminal event and stored the payload it
\* returned.
C9_EveryPathPublishesAndStores ==
    \A j \in Ids :
        (pc[j] = "done" /\ ~faults[j]) =>
            /\ HasFinalEvent(j)
            /\ written[j] # <<>>
            /\ Last(written[j]) = ret[j]

\* C10: at most one terminal event (complete or error) is ever published
\* for a job id.
C10_AtMostOneTerminalEvent ==
    \A j \in Ids :
        Cardinality({i \in DOMAIN published[j] :
                        published[j][i] \in final_events}) <= 1

\* C11: no Generation Task lets an exception leave its run entry point:
\* every run ends by returning a payload.
C11_RunAlwaysReturnsPayload ==
    \A j \in Ids :
        /\ pc[j] # "raised"
        /\ pc[j] = "done" => ret[j] \in Payloads

\* The start event of job j was attempted and its publish failed.
StartFailed(j) ==
    faults[j] /\ (published[j] = <<>> \/ Head(published[j]) # "start")

\* The arguments pass the validation and the prompt can be built.
ReachesCall(r) ==
    /\ run_binds(r)
    /\ r.kind = "product3d" => r.featured_image /\ r.shop_theme

\* C12: a failed publish of the start event does not stop the task: with
\* arguments that pass validation it still makes the external call.
C12_StartPublishBestEffort ==
    \A j \in Ids :
        StartFailed(j) /\ ReachesCall(req[j]) => calls[j] >= 1

\* C13: a product task whose arguments carry no image makes no external
\* call and what it returns has status "error".
C13_MissingImageNoExternalCall ==
    \A j \in Ids :
        req[j].kind = "product3d" /\ ~req[j].featured_image =>
            /\ calls[j] = 0
            /\ pc[j] = "done" => ret[j].status = "error"

C13_Witness ==
    \E j \in Ids :
        /\ req[j].kind = "product3d" /\ ~req[j].featured_image
        /\ pc[j] = "done" /\ ret[j] = no_image_response /\ calls[j] = 0
        /\ published[j] = <<"start">>

\* C14: a valid submission to generate_product_3d is answered 202 with
\* status "queued" and a job id exactly one task was scheduled under, and
\* get_task_result answers for that id.
C14_ValidSubmissionQueued ==
    reply.handler = "generate_product_3d" /\ ~reply.lacking =>
        /\ reply.code = 202 /\ reply.status = "queued"
        /\ reply.task_id \in Ids
        /\ scheduled[reply.task_id] = 1
        /\ get_task_result(store, reply.task_id, TRUE).code = 200

\* C15: a Dispatcher call that returned a job id made exactly one
\* apply_async call.
C15_ReturnedIdHasOneTask ==
    reply.handler \in {"generate_product_3d", "queue_task"}
        /\ reply.task_id # NoId => reply.tasks = 1

\* C16: at most one task is ever scheduled under one job id.
C16_JobIdsNeverReused ==
    \A j \in Ids : scheduled[j] <= 1

\* C17: a submission with no value for a field the generation needs is
\* answered with a 4xx code, no job id and no task scheduled.
C17_LackingSubmissionRejected ==
    reply.lacking =>
        /\ reply.code \in 400..499
        /\ reply.task_id = NoId
        /\ reply.tasks = 0

\* C18: for a job id with no entry under the key a Result Access Layer
\* reads, that layer answers with status "pending".
C18_NoEntryAnswersPending ==
    \A id \in AllIds :
        /\ get_value(store, api_result_key(id)) = Absent =>
                get_task_result(store, id, TRUE).status = "pending"
        /\ get_value(store, task_response_key(id)) = Absent =>
                routes_get_task_result(store, Pool, id).status = "pending"

\* C19: when the Result Store holds an entry for a job id, the Result Access
\* Layer returns its status and the payload as stored.
C19_StoredEntryReturnedUnchanged ==
    \A j \in Ids :
        LET entry == get_value(store, task_result_key(j)) IN
        entry # Absent =>
            /\ get_task_result(store, j, TRUE).status = entry.status
            /\ get_task_result(store, j, TRUE).result = entry
            /\ get_task_status(store, Pool, j).status = entry.status

\* C20: the answer of the Result Access Layer is the one it gives on the
\* same Result Store with a worker pool that holds nothing.
C20_AnswerDependsOnStoreOnly ==
    \A id \in AllIds :
        /\ routes_get_task_result(store, Pool, id)
               = routes_get_task_result(store, IdlePool, id)
        /\ get_task_status(store, Pool, id)
               = get_task_status(store, IdlePool, id)

QueuedOrStarted == {"queued", "call", "publish", "store", "except", "estore"}

\* The last call was a cancel of job id that returned success.
CancelSucceeded(id) ==
    reply.handler = "cancel_task" /\ reply.code \in 200..299
        /\ reply.task_id = id

C23_CancelReachesTask ==
    [][\A j \in Ids :
          pc[j] = "queued" /\ cancel_task(j, TRUE, TRUE) =>
              pc'[j] \notin QueuedOrStarted]_vars

\* C24: a submit or cancel that answers 5xx has scheduled no task, revoked
\* none and left the Result Store as it was.
C24_FailureLeavesNoPartialState ==
    [][/\ \A id \in AllIds, rok \in BOOLEAN, dok \in BOOLEAN :
            cancel_task(id, rok, dok) /\ reply'.code >= 500 =>
                UNCHANGED <<pc, req, scheduled, store>>
       /\ \A request \in ProductRequests :
            generate_product_3d(request) /\ reply'.code >= 500 =>
                UNCHANGED <<pc, req, scheduled, store>>]_vars

\* A step of the generator of stream s.
StreamStep(s) ==
    \/ \E ok \in BOOLEAN : PollIteration(s, ok)
    \/ \E ok \in BOOLEAN, rok \in BOOLEAN : SubIteration(s, ok, rok)

\* What belongs to stream s.
StreamState(s) ==
    <<skind[s], sjob[s], phase[s], previous_status[s], elapsed[s],
      emitted[s], connected[s], inbox[s], caught[s]>>

Vocabulary ==
    {"queued", "started", "running", "completed", "failed", "error",
     "timeout", "cancelled"}

\* C26: every status a task stored and every status the polling stream
\* emitted is in the vocabulary.
C26_StatusVocabulary ==
    /\ \A j \in Ids : \A i \in DOMAIN written[j] :
            written[j][i].status \in Vocabulary
    /\ \A s \in Streams : skind[s] = "poll" =>
            \A i \in DOMAIN emitted[s] : emitted[s][i].status \in Vocabulary

\* The payload has the fields of its kind and the job id.
WellFormed(payload, j) ==
    /\ payload.task_id = j
    /\ \/ payload.status = "success"
       \/ /\ payload.status = "error"
          /\ payload.error # None
          /\ payload.error_type # None

\* C27: every payload a task returned or stored has status success or
\* error, the job id and, for an error, a message and an error kind.
C27_PayloadCarriesJobId ==
    \A j \in Ids :
        /\ pc[j] = "done" => WellFormed(ret[j], j)
        /\ \A i \in DOMAIN written[j] : WellFormed(written[j][i], j)

\* C28: a task that has issued its external call is never ended by the
\* worker pool on its own account.
C28_NoSelfTimeout ==
    \A j \in Ids : calls[j] >= 1 => pc[j] # "killed"

C30_OneKeyPerJob ==
    \A id \in AllIds :
        LET entry == get_value(store, task_result_key(id)) IN
        /\ get_value(store, api_result_key(id)) = entry
        /\ get_value(store, task_response_key(id)) = entry

\* C31: a task that ran to its return without taking the missing-image
\* path, and without a store or channel failure, has made exactly one
\* external generation call; no task makes a second call, and a job whose
\* first stored payload is an error never gets a success payload.
C31_ExactlyOneExternalCall ==
    \A j \in Ids :
        /\ calls[j] <= 1
        /\ pc[j] = "done" /\ run_binds(req[j]) /\ ~image_missing(req[j])
           /\ ~faults[j] => calls[j] = 1
        /\ \A i \in DOMAIN written[j] :
               written[j][1].status = "error" =>
                   written[j][i].status = "error"

\* C34: on every polling stream a synthetic queued frame is the first
\* frame of the stream: there is at most one, and none follows another
\* frame, whatever the Result Store holds afterwards.
C34_SyntheticQueuedOnlyFirst ==
    \A s \in Streams :
        \A i \in DOMAIN emitted[s] :
            emitted[s][i].origin = "synthetic" => i = 1

\* A polling stream that emitted one stored status now finds the entry
\* absent, with wait time left: its next iteration reads an absent entry.
C34_Witness ==
    \E s \in Streams :
        /\ skind[s] = "poll" /\ phase[s] = "open"
        /\ Len(emitted[s]) = 1 /\ emitted[s][1].origin = "stored"
        /\ get_value(store, task_result_key(sjob[s])) = Absent
        /\ elapsed[s] = 2 /\ ~timed_out(elapsed[s])

\* C36: every payload in the Result Store was written after its terminal
\* event was published: a stored success payload has a published complete
\* event and a stored error payload a published error event, so an error
\* payload whose error event could not be published is never stored.
C36_PublishBeforeStore ==
    \A j \in Ids :
        \A i \in DOMAIN written[j] :
            \E k \in DOMAIN published[j] :
                published[j][k] =
                    IF written[j][i].status = "success"
                    THEN "complete" ELSE "error"

\* A subscriber has relayed the complete event of a job whose task is at
\* its store call, and a Result Store read for the job returns absent.
C36_Witness ==
    \E s \in Streams, j \in Ids :
        /\ skind[s] = "sub" /\ sjob[s] = j
        /\ emitted[s] # <<>>
        /\ emitted[s][Len(emitted[s])] = Frame("complete", "channel")
        /\ pc[j] = "store"
        /\ get_value(store, task_result_key(j)) = Absent

\* C37: a pub/sub stream whose generator has left its loop, by a terminal
\* event, a client disconnect or an exception, has unsubscribed and closed
\* its subscriber, and a relayed complete or error event is the last frame
\* of the stream.
C37_SubscriptionAlwaysReleased ==
    \A s \in Streams :
        skind[s] = "sub" =>
            /\ phase[s] # "release_raised"
            /\ \A i \in DOMAIN emitted[s] :
                   (emitted[s][i].origin = "channel"
                    /\ emitted[s][i].status \in final_events)
                       => i = Len(emitted[s])

\* C35: a task scheduled with product data that carries a non-empty image
\* reference, under either key, does not return the missing-image payload.
C35_SuppliedImageIsValidated ==
    \A j \in Ids :
        (req[j].kind = "product3d"
         /\ (req[j].featured_image \/ req[j].image_url)) =>
            ret[j] # no_image_response

\* The external call of job j has returned.
Returned(j) == response[j].text # None

\* The response carries usage accounting.
ReportsUsage(resp) == DOMAIN resp.usage_metadata # {}

\* The payload of the scenario: the returned text as metadata and the three
\* counts under their payload names.
ExpectedPayload(j) ==
    [status |-> "success", error |-> None, error_type |-> None,
     metadata |-> "three_js",
     usage |-> [input_tokens |-> 10, output_tokens |-> 5,
                total_tokens |-> 15],
     task_id |-> j]

\* C32: a product task scheduled with an image, with or without a shop
\* theme, whose client does not throw and reports usage when called, and
\* none of whose store and channel calls failed, returns and stores exactly
\* the success payload with the returned text and the mapped usage counts.
C32_SuccessPayloadForAnyTheme ==
    \A j \in Ids :
        (/\ pc[j] = "done"
         /\ req[j].kind = "product3d" /\ req[j].featured_image
         /\ ~faults[j]
         /\ exc[j] # "GenerationError"
         /\ Returned(j) => ReportsUsage(response[j])) =>
            /\ ret[j] = ExpectedPayload(j)
            /\ written[j] = <<ExpectedPayload(j)>>

\* C33: a job whose external call returned a response without usage
\* metadata, and none of whose store and channel calls failed, handles no
\* exception, and when its task has returned, the payload returned and
\* stored is a success payload whose three token counts are 0.
C33_MissingUsageCountsZero ==
    \A j \in Ids :
        (Returned(j) /\ ~ReportsUsage(response[j]) /\ ~faults[j]) =>
            /\ exc[j] = None
            /\ pc[j] = "done" =>
                /\ ret[j].status = "success"
                /\ ret[j].usage = [input_tokens |-> 0, output_tokens |-> 0,
                                   total_tokens |-> 0]
                /\ written[j] = <<ret[j]>>

\* A task whose call returned no usage metadata has stored its success
\* payload with zero counts.
C33_Witness ==
    \E j \in Ids :
        /\ Returned(j) /\ ~ReportsUsage(response[j])
        /\ pc[j] = "done" /\ ret[j].status = "success"
        /\ ret[j].usage.total_tokens = 0
        /\ get_value(store, task_result_key(j)) = ret[j]
====
